---- MODULE Spec2Model ----
(***************************************************************************)
(* Model of the instruction codec of src/src/instruction.rs:               *)
(* FlashloanArbitrageInstruction::unpack, ::unpack_u64 and ::pack.         *)
(*                                                                         *)
(* The codec is a pair of pure functions, modelled as operators computed    *)
(* the way the code computes them (split_first, split_at(8),               *)
(* u64::from_le_bytes, Vec::push / extend_from_slice).  Two callers drive   *)
(* them: the program entrypoint, which unpacks caller-supplied instruction  *)
(* data (and may pack the decoded value again), and a client, which packs   *)
(* an instruction that the entrypoint then unpacks.                         *)
(*                                                                         *)
(* A u64 is modelled as the integer it denotes.  TLC's integers are 32-bit, *)
(* so the sampled amounts and fields lie in 0 .. 2^31 - 1: the upper four   *)
(* bytes of every sampled 8-byte field are zero.                            *)
(***************************************************************************)
EXTENDS Integers, Sequences, FiniteSets

VARIABLES
    caller,  \* "entrypoint" (unpacks received data) or "client" (packs an instruction)
    input,   \* the byte slice handed to unpack
    result,  \* the Result<Self, ProgramError> unpack returned
    self,    \* the instruction pack is called on
    buf,     \* the Vec<u8> pack returned
    pc       \* the caller's position

vars == <<caller, input, result, self, buf, pc>>

----------------------------------------------------------------------------
\* Bounds of the model

\* longest run of bytes after the two 8-byte fields in a sampled buffer, and
\* longest execute_operation_ix_data of a sampled instruction
MaxExtra == 3

\* bytes used for the run after the fixed-size fields
ExtraBytes == {9, 255}

\* first bytes of the sampled buffers: the three discriminants and two others
TagSamples == {0, 1, 2, 3, 255}

\* 8-byte fields of the sampled buffers: 0, 1, 10, 500, 1000, 2^31 - 1
FieldSamples ==
    { <<0, 0, 0, 0, 0, 0, 0, 0>>,
      <<1, 0, 0, 0, 0, 0, 0, 0>>,
      <<10, 0, 0, 0, 0, 0, 0, 0>>,
      <<244, 1, 0, 0, 0, 0, 0, 0>>,
      <<232, 3, 0, 0, 0, 0, 0, 0>>,
      <<255, 255, 255, 127, 0, 0, 0, 0>> }

\* u64 values of the sampled instructions
AmountSamples == {0, 1, 10, 500, 1000, 2147483647}

ExtraSamples == UNION {[1..n -> ExtraBytes] : n \in 0..MaxExtra}

\* every prefix of  tag ++ field ++ field ++ extra : the empty slice, a lone
\* tag, a cut first or second field, complete payloads with and without a tail
InputSamples ==
    UNION { { SubSeq(<<t>> \o f1 \o f2 \o x, 1, n) : n \in 0..(17 + Len(x)) } :
            <<t, f1, f2, x>> \in TagSamples \X FieldSamples \X FieldSamples \X ExtraSamples }

----------------------------------------------------------------------------
\* enum FlashloanArbitrageInstruction

InitFlashloanArbitrage == [variant |-> "InitFlashloanArbitrage"]

ExecuteOperation(amount) == [variant |-> "ExecuteOperation", amount |-> amount]

FlashloanArbitrage(amount, execute_operation_ix_data, expected_profit) ==
    [variant |-> "FlashloanArbitrage",
     amount |-> amount,
     execute_operation_ix_data |-> execute_operation_ix_data,
     expected_profit |-> expected_profit]

InstructionSamples ==
    {InitFlashloanArbitrage}
    \cup {ExecuteOperation(a) : a \in AmountSamples}
    \cup {FlashloanArbitrage(a, x, p) : <<a, x, p>> \in AmountSamples \X ExtraSamples \X AmountSamples}

\* Result<T, ProgramError>; the error is the FlashloanArbitrageError variant
\* that the code converts with .into() / ?
Ok(v) == [ok |-> TRUE, value |-> v]
Err(e) == [ok |-> FALSE, err |-> e]

\* placeholders of the caller before the call is made
NoResult == [ok |-> FALSE, err |-> "NoResult"]
NoInstruction == [variant |-> "NoInstruction"]

----------------------------------------------------------------------------
\* u64 <-> bytes

size_of_u64 == 8

\* u64::from_le_bytes: bytes[0] + 256 * bytes[1] + ... ; at most 8 bytes, so
\* the value is below 2^64 and never wraps
RECURSIVE from_le_bytes(_)
from_le_bytes(bytes) ==
    IF bytes = <<>> THEN 0 ELSE bytes[1] + 256 * from_le_bytes(Tail(bytes))

RECURSIVE le_digits(_, _)
le_digits(v, n) ==
    IF n = 0 THEN <<>> ELSE <<v % 256>> \o le_digits(v \div 256, n - 1)

\* variant of to_le_bytes: the value is narrowed to 32 bits, 4 bytes are written
to_le_bytes_u32(v) == le_digits(v, 4)

\* u64::to_le_bytes: the 8 bytes of v, least significant first
to_le_bytes(v) == le_digits(v, size_of_u64)

----------------------------------------------------------------------------
\* variant of unpack_u64: the length test is > 8 instead of >= 8
unpack_u64_gt(in) ==
    IF Len(in) > 8
    THEN Ok(<<from_le_bytes(SubSeq(in, 1, 8)), SubSeq(in, 9, Len(in))>>)
    ELSE Err("InstructionUnpackError")

\* variant of unpack_u64: the slice must hold exactly the 8 bytes
unpack_u64_exact(in) ==
    IF Len(in) = 8
    THEN Ok(<<from_le_bytes(SubSeq(in, 1, 8)), <<>>>>)
    ELSE Err("InstructionUnpackError")

\* variant of unpack_u64: a short slice yields 0 instead of an error
unpack_u64_default(in) ==
    IF Len(in) >= 8
    THEN Ok(<<from_le_bytes(SubSeq(in, 1, 8)), SubSeq(in, 9, Len(in))>>)
    ELSE Ok(<<0, in>>)

\* fn unpack_u64(input: &[u8]) -> Result<(u64, &[u8]), ProgramError>
unpack_u64(in) ==
    IF Len(in) >= 8
    THEN LET amount == SubSeq(in, 1, 8)             \* split_at(8).0
             rest == SubSeq(in, 9, Len(in))       \* split_at(8).1
         IN  IF Len(amount) >= 8                    \* .get(..8), try_into
             THEN Ok(<<from_le_bytes(SubSeq(amount, 1, 8)), rest>>)
             ELSE Err("InstructionUnpackError")
    ELSE Err("InstructionUnpackError")

\* variant of unpack: a missing or unknown tag is reported with the error of
\* unpack_u64
unpack_one_error(in) ==
    IF in = <<>>
    THEN Err("InstructionUnpackError")
    ELSE LET tag == Head(in)
             rest == Tail(in)
         IN  CASE tag = 0 -> Ok(InitFlashloanArbitrage)
               [] tag = 1 ->
                    LET r == unpack_u64(rest)
                    IN  IF ~r.ok THEN r
                        ELSE Ok(ExecuteOperation(r.value[1]))
               [] tag = 2 ->
                    LET r1 == unpack_u64(rest)
                    IN  IF ~r1.ok THEN r1
                        ELSE LET r2 == unpack_u64(r1.value[2])
                             IN  IF ~r2.ok THEN r2
                                 ELSE Ok(FlashloanArbitrage(r1.value[1],
                                                            r2.value[2],
                                                            r2.value[1]))
               [] OTHER -> Err("InstructionUnpackError")

\* variant of unpack: the amount is read before the tag is matched, so a
\* short payload behind an unknown tag is reported as InstructionUnpackError
unpack_eager(in) ==
    IF in = <<>>
    THEN Err("InvalidInstruction")
    ELSE LET tag == Head(in)
             rest == Tail(in)
             r1 == unpack_u64(rest)
         IN  CASE tag = 0 -> Ok(InitFlashloanArbitrage)
               [] tag = 1 ->
                    IF ~r1.ok THEN r1
                    ELSE Ok(ExecuteOperation(r1.value[1]))
               [] tag = 2 ->
                    IF ~r1.ok THEN r1
                    ELSE LET r2 == unpack_u64(r1.value[2])
                         IN  IF ~r2.ok THEN r2
                             ELSE Ok(FlashloanArbitrage(r1.value[1],
                                                        r2.value[2],
                                                        r2.value[1]))
               [] OTHER -> IF ~r1.ok THEN r1 ELSE Err("InvalidInstruction")

\* variant of unpack: the two u64 fields of FlashloanArbitrage are bound in
\* the other order
unpack_fields_swapped(in) ==
    IF in = <<>>
    THEN Err("InvalidInstruction")
    ELSE LET tag == Head(in)
             rest == Tail(in)
         IN  CASE tag = 0 -> Ok(InitFlashloanArbitrage)
               [] tag = 1 ->
                    LET r == unpack_u64(rest)
                    IN  IF ~r.ok THEN r
                        ELSE Ok(ExecuteOperation(r.value[1]))
               [] tag = 2 ->
                    LET r1 == unpack_u64(rest)
                    IN  IF ~r1.ok THEN r1
                        ELSE LET r2 == unpack_u64(r1.value[2])
                             IN  IF ~r2.ok THEN r2
                                 ELSE Ok(FlashloanArbitrage(r2.value[1],
                                                            r2.value[2],
                                                            r1.value[1]))
               [] OTHER -> Err("InvalidInstruction")

\* pub fn unpack(input: &[u8]) -> Result<Self, ProgramError>
unpack(in) ==
    IF in = <<>>
    THEN Err("InvalidInstruction")                  \* split_first().ok_or(..)?
    ELSE LET tag == Head(in)
             rest == Tail(in)
         IN  CASE tag = 0 -> Ok(InitFlashloanArbitrage)
               [] tag = 1 ->
                    LET r == unpack_u64(rest)
                    IN  IF ~r.ok THEN r
                        ELSE Ok(ExecuteOperation(r.value[1]))
               [] tag = 2 ->
                    LET r1 == unpack_u64(rest)
                    IN  IF ~r1.ok THEN r1
                        ELSE LET r2 == unpack_u64(r1.value[2])
                             IN  IF ~r2.ok THEN r2
                                 ELSE Ok(FlashloanArbitrage(r1.value[1],
                                                            r2.value[2],
                                                            r2.value[1]))
               [] OTHER -> Err("InvalidInstruction")

\* variant of pack: expected_profit is written before amount
pack_profit_first(ix) ==
    CASE ix.variant = "InitFlashloanArbitrage" -> <<0>>
      [] ix.variant = "ExecuteOperation" -> <<1>> \o to_le_bytes(ix.amount)
      [] ix.variant = "FlashloanArbitrage" ->
            <<2>> \o to_le_bytes(ix.expected_profit)
                  \o to_le_bytes(ix.amount)
                  \o ix.execute_operation_ix_data

\* variant of pack: execute_operation_ix_data is not appended
pack_no_data(ix) ==
    CASE ix.variant = "InitFlashloanArbitrage" -> <<0>>
      [] ix.variant = "ExecuteOperation" -> <<1>> \o to_le_bytes(ix.amount)
      [] ix.variant = "FlashloanArbitrage" ->
            <<2>> \o to_le_bytes(ix.amount)
                  \o to_le_bytes(ix.expected_profit)

\* pub fn pack(&self) -> Vec<u8>
pack(ix) ==
    CASE ix.variant = "InitFlashloanArbitrage" -> <<0>>
      [] ix.variant = "ExecuteOperation" -> <<1>> \o to_le_bytes(ix.amount)
      [] ix.variant = "FlashloanArbitrage" ->
            <<2>> \o to_le_bytes(ix.amount)
                  \o to_le_bytes(ix.expected_profit)
                  \o ix.execute_operation_ix_data

----------------------------------------------------------------------------
\* The callers

Init ==
    /\ result = NoResult
    /\ buf = <<>>
    /\ \/ /\ caller = "entrypoint"
          /\ pc = "unpack"
          /\ input \in InputSamples
          /\ self = NoInstruction
       \/ /\ caller = "client"
          /\ pc = "pack"
          /\ input = <<>>
          /\ self \in InstructionSamples

\* the entrypoint decodes the instruction data it received
Unpack ==
    /\ pc = "unpack"
    /\ result' = unpack(input)
    /\ pc' = IF result'.ok THEN "repack" ELSE "done"
    /\ UNCHANGED <<caller, input, self, buf>>

\* the decoded instruction is encoded again
Repack ==
    /\ pc = "repack"
    /\ self' = result.value
    /\ buf' = pack(result.value)
    /\ pc' = "done"
    /\ UNCHANGED <<caller, input, result>>

\* a client encodes an instruction it constructed
Pack ==
    /\ pc = "pack"
    /\ buf' = pack(self)
    /\ pc' = "deliver"
    /\ UNCHANGED <<caller, input, result, self>>

\* the encoded instruction reaches the entrypoint, which decodes it
Deliver ==
    /\ pc = "deliver"
    /\ input' = buf
    /\ result' = unpack(buf)
    /\ pc' = "done"
    /\ UNCHANGED <<caller, self, buf>>

Next == Unpack \/ Repack \/ Pack \/ Deliver

Spec == Init /\ [][Next]_vars

----------------------------------------------------------------------------
\* Vocabulary of the properties

\* unpack has returned: result holds what it returned for input
Unpacked ==
    \/ caller = "entrypoint" /\ pc \in {"repack", "done"}
    \/ caller = "client" /\ pc = "done"

\* pack has returned: buf holds what it returned for self
Packed ==
    \/ caller = "client" /\ pc \in {"deliver", "done"}
    \/ caller = "entrypoint" /\ pc = "done" /\ result.ok

\* the entrypoint has decoded the data it received
Decoded == caller = "entrypoint" /\ pc \in {"repack", "done"}

\* the number denoted by 8 bytes read least significant byte first
le_u64(b) ==
    b[1] + 256 * (b[2] + 256 * (b[3] + 256 * (b[4] + 256 * (b[5]
         + 256 * (b[6] + 256 * (b[7] + 256 * b[8]))))))

IsBytes(b) == \A i \in 1..Len(b) : b[i] \in 0..255

\* bytes lo .. hi-1 of a buffer, counted from 0 as in the wire format
Bytes(b, lo, hi) == SubSeq(b, lo + 1, hi)

\* C1: a packed instruction unpacks to the same variant with equal fields
C1_RoundTrip ==
    (caller = "client" /\ pc = "done") =>
        /\ result.ok
        /\ result.value.variant = self.variant
        /\ result.value = self

C1_Witness ==
    /\ caller = "client" /\ pc = "done"
    /\ self.variant = "FlashloanArbitrage"
    /\ self.amount = 500 /\ self.expected_profit = 10
    /\ self.execute_operation_ix_data = <<9, 255, 9>>
    /\ result.ok

\* C2 (as stated): unpacking the empty slice fails with an error kind that
\* neither an unknown tag nor a truncated payload produces
C2_Original ==
    (Decoded /\ input = <<>>) =>
        /\ ~result.ok
        /\ \A b \in InputSamples :
              (b # <<>> /\ ~unpack(b).ok) => unpack(b).err # result.err

\* C2 (amended): unpacking the empty slice fails with InvalidInstruction, the
\* error an unknown tag produces too, and no truncated payload produces it
C2_EmptyInput ==
    (Decoded /\ input = <<>>) =>
        /\ result = Err("InvalidInstruction")
        /\ \A b \in InputSamples :
              (b # <<>> /\ ~unpack(b).ok) =>
                  (unpack(b).err = result.err <=> Head(b) \notin {0, 1, 2})

C2_Witness == Decoded /\ input = <<>> /\ pc = "done" /\ ~result.ok

\* C3: a non-empty slice whose first byte is not 0, 1 or 2 fails with
\* InvalidInstruction whatever follows the first byte
C3_UnknownTag ==
    (Decoded /\ input # <<>> /\ Head(input) \notin {0, 1, 2}) =>
        result = Err("InvalidInstruction")

C3_Witness ==
    /\ Decoded /\ Len(input) \in 2..8 /\ Head(input) = 255
    /\ ~result.ok /\ result.err = "InvalidInstruction"

\* C4: unpack fails with InstructionUnpackError exactly when the first byte
\* is 1 with fewer than 8 bytes after it or 2 with fewer than 16 after it
C4_Truncated ==
    Decoded =>
        ((~result.ok /\ result.err = "InstructionUnpackError")
            <=> /\ input # <<>>
                /\ \/ Head(input) = 1 /\ Len(input) - 1 < 8
                   \/ Head(input) = 2 /\ Len(input) - 1 < 16)

C4_Witness ==
    /\ Decoded /\ Len(input) = 9 /\ Head(input) = 2
    /\ result = Err("InstructionUnpackError")

\* C5: pack writes the discriminant, then amount as 8 little-endian bytes,
\* then expected_profit as 8 little-endian bytes, then the data verbatim
C5_Layout ==
    Packed =>
        /\ IsBytes(buf)
        /\ self.variant = "InitFlashloanArbitrage" => buf = <<0>>
        /\ self.variant = "ExecuteOperation" =>
              /\ Len(buf) = 9 /\ buf[1] = 1
              /\ le_u64(Bytes(buf, 1, 9)) = self.amount
        /\ self.variant = "FlashloanArbitrage" =>
              /\ Len(buf) = 17 + Len(self.execute_operation_ix_data) /\ buf[1] = 2
              /\ le_u64(Bytes(buf, 1, 9)) = self.amount
              /\ le_u64(Bytes(buf, 9, 17)) = self.expected_profit
              /\ Bytes(buf, 17, Len(buf)) = self.execute_operation_ix_data

C5_Witness ==
    /\ caller = "client" /\ pc = "deliver"
    /\ self = FlashloanArbitrage(1000, <<255, 9>>, 2147483647)
    /\ Len(buf) = 19

\* C6: a slice of N >= 17 bytes starting with 2 unpacks to FlashloanArbitrage
\* with amount from bytes 1..9, expected_profit from bytes 9..17 and the data
\* equal to bytes 17..N
C6_Arbitrage ==
    (Decoded /\ Len(input) >= 17 /\ Head(input) = 2) =>
        /\ result.ok
        /\ result.value.variant = "FlashloanArbitrage"
        /\ result.value.amount = le_u64(Bytes(input, 1, 9))
        /\ result.value.expected_profit = le_u64(Bytes(input, 9, 17))
        /\ result.value.execute_operation_ix_data = Bytes(input, 17, Len(input))
        /\ Len(result.value.execute_operation_ix_data) = Len(input) - 17

C6_Witness ==
    /\ Decoded /\ Len(input) = 17 /\ Head(input) = 2
    /\ result = Ok(FlashloanArbitrage(500, <<>>, 1000))

\* C7: a slice starting with 0 unpacks to InitFlashloanArbitrage and a slice
\* starting with 1 and 8 more bytes unpacks to ExecuteOperation with amount
\* from bytes 1..9, whatever bytes follow
C7_TrailingBytes ==
    Decoded =>
        /\ (input # <<>> /\ Head(input) = 0) => result = Ok(InitFlashloanArbitrage)
        /\ (Len(input) >= 9 /\ Head(input) = 1) =>
              result = Ok(ExecuteOperation(le_u64(Bytes(input, 1, 9))))

C7_Witness ==
    /\ Decoded /\ Len(input) = 20 /\ Head(input) = 1
    /\ result = Ok(ExecuteOperation(1000))

\* C8: unpack returns either an instruction with all of its fields, read
\* from a slice long enough to hold them, or one of the error kinds
C8_Total ==
    Unpacked =>
        \/ /\ result.ok
           /\ \/ /\ result.value = InitFlashloanArbitrage
                 /\ Len(input) >= 1
              \/ /\ result.value.variant = "ExecuteOperation"
                 /\ DOMAIN result.value = {"variant", "amount"}
                 /\ result.value.amount \in Nat
                 /\ Len(input) >= 9
              \/ /\ result.value.variant = "FlashloanArbitrage"
                 /\ DOMAIN result.value =
                       {"variant", "amount", "execute_operation_ix_data", "expected_profit"}
                 /\ result.value.amount \in Nat
                 /\ result.value.expected_profit \in Nat
                 /\ IsBytes(result.value.execute_operation_ix_data)
                 /\ Len(input) >= 17
        \/ /\ ~result.ok
           /\ result.err \in {"InvalidInstruction", "InstructionUnpackError"}

C8_Witness ==
    /\ Decoded /\ Len(input) = 4 /\ Head(input) = 1
    /\ result = Err("InstructionUnpackError")

\* C10: packing what unpack returned gives a prefix of the unpacked slice:
\* its first byte for tag 0, its first 9 bytes for tag 1, all of it for tag 2
C10_Reencode ==
    (caller = "entrypoint" /\ pc = "done" /\ result.ok) =>
        /\ Head(input) = 0 => buf = Bytes(input, 0, 1)
        /\ Head(input) = 1 => buf = Bytes(input, 0, 9)
        /\ Head(input) = 2 => buf = input

C10_Witness ==
    /\ caller = "entrypoint" /\ pc = "done" /\ result.ok
    /\ Head(input) = 1 /\ Len(input) = 12
    /\ buf = Bytes(input, 0, 9)

====
